---- MODULE Spec2Model ----
(***************************************************************************)
(* Model of aruba-bulk-add.py: the reconciliation loop of apply_conf_csv   *)
(* (load the .csv ledger, check each access point's presence on the        *)
(* controller, rename and regroup the ones found, rewrite the ledger with  *)
(* the remainder through a .swp file) and the MAC normalizer convert_mac.  *)
(* Strings that the code inspects are sequences of one-character strings.  *)
(***************************************************************************)
EXTENDS Integers, Sequences, FiniteSets, TLC

\* ------------------------------------------------------------------------
\* Bounds
\* ------------------------------------------------------------------------

\* longest ledger (number of data rows) the operator hands to the program
MaxLedger == 2

\* longest string, over MacAlphabet, that convert_mac is tried on
MaxMacLen == 4

\* most lines in a listing that the controller returns to create_table
MaxLines == 2

\* ------------------------------------------------------------------------
\* Strings
\* ------------------------------------------------------------------------

\* str.lower() on one character (the letters used: hexadecimal, and O, L, D)
LowerChar(c) ==
    CASE c = "A" -> "a"
      [] c = "B" -> "b"
      [] c = "C" -> "c"
      [] c = "D" -> "d"
      [] c = "E" -> "e"
      [] c = "F" -> "f"
      [] c = "L" -> "l"
      [] c = "O" -> "o"
      [] OTHER -> c

\* str.lower()
Lower(s) == [k \in 1..Len(s) |-> LowerChar(s[k])]

\* `x in s` for a one-character x
HasChar(s, c) == \E k \in 1..Len(s) : s[k] = c

\* `m in text`: the substring test of line 223
IsSubstring(m, text) ==
    \E k \in 0..(Len(text) - Len(m)) : SubSeq(text, k + 1, k + Len(m)) = m

\* str_grouper that also yields the incomplete last chunk
str_grouper_KeepTail(n, s) ==
    [k \in 1..((Len(s) + n - 1) \div n) |->
        SubSeq(s, (k - 1) * n + 1, IF k * n <= Len(s) THEN k * n ELSE Len(s))]

\* str_grouper(n, iterable): zip(*[iter(s)] * n) yields the complete chunks
\* of n characters, left to right; an incomplete tail is not yielded
str_grouper(n, s) ==
    [k \in 1..(Len(s) \div n) |-> SubSeq(s, (k - 1) * n + 1, k * n)]

\* sep.join(parts)
RECURSIVE Join(_, _)
Join(sep, parts) ==
    IF parts = <<>> THEN <<>>
    ELSE IF Len(parts) = 1 THEN parts[1]
    ELSE parts[1] \o sep \o Join(sep, Tail(parts))

\* convert_mac(mac)
convert_mac(mac) ==
    IF HasChar(mac, ":") THEN mac
    ELSE Join(<<":">>, str_grouper(2, Lower(mac)))

\* the length guard of line 215: `len(mac) < 10` skips the row
MinMacLen == 10

\* ------------------------------------------------------------------------
\* Ledger rows and the controller's texts
\* ------------------------------------------------------------------------

\* the header row written at line 240 (and at line 109)
Header == << <<"g","r","o","u","p">>, <<"n","a","m","e">>, <<"m","a","c">> >>

\* mac fields an operator may have in the ledger
MacEmpty == <<>>
MacShort == <<"a","a","b","b","c","c">>
MacRaw   == <<"A","A","B","B","C","C","D","D","E","E","0","1">>
MacCanon == <<"a","a",":","b","b",":","c","c",":","d","d",":","e","e",":","0","2">>
MacEight == <<"a","a","b","b","c","c","d","d">>

GroupLobby == <<"l","o","b","b","y">>
GroupLab   == <<"l","a","b">>

\* the data rows an operator may have in the ledger: (group, name, mac)
RowPool ==
    { << GroupLobby, <<"A","P","-","1">>, MacRaw >>,
      << GroupLab,   <<"A","P","-","2">>, MacCanon >>,
      << GroupLobby, <<"A","P","-","3">>, MacEmpty >>,
      << GroupLab,   <<"A","P","-","4">>, MacShort >>,
      << GroupLobby, <<"A","P","-","5">>, MacEight >> }

\* ledgers of at most n data rows
RECURSIVE RowSeqs(_)
RowSeqs(n) ==
    IF n = 0 THEN { <<>> }
    ELSE LET shorter == RowSeqs(n - 1)
         IN  shorter \cup { Append(s, r) : s \in { t \in shorter : Len(t) = n - 1 }, r \in RowPool }

\* csv.DictReader: the first row names the fields, each later row is a dict
DictRows(f) ==
    IF f = <<>> THEN <<>>
    ELSE [k \in 1..(Len(f) - 1) |-> [group |-> f[k + 1][1], name |-> f[k + 1][2], mac |-> f[k + 1][3]]]

\* the row written for a pending access point at line 242
RowOf(ap) == << ap["group"], ap["name"], ap["mac"] >>

\* what the controller may answer to `show ap database long | include <mac>`:
\* nothing, or the database line of one of two online access points
LineOne == <<"A","P","-","1"," ">> \o convert_mac(MacRaw) \o <<" ","U","p">>
LineTwo == <<"A","P","-","2"," ">> \o MacCanon \o <<" ","U","p">>
ShowOutputs == { <<>>, LineOne, LineTwo }

\* the command strings of lines 220, 227 and 232
BuildShow(mac) == [verb |-> "show ap database long | include", mac |-> mac, arg |-> <<>>]
BuildRename(mac, ap_name) == [verb |-> "ap-rename wired-mac", mac |-> mac, arg |-> ap_name]
BuildRegroup(mac, group) == [verb |-> "ap-regroup wired-mac", mac |-> mac, arg |-> group]

\* ------------------------------------------------------------------------
\* State
\* ------------------------------------------------------------------------

VARIABLES
    file,          \* rows of the file at `path` (header first)
    swp,           \* rows of the file at `path + ".swp"`, or Absent
    todo,          \* the rows loaded in this round
    done,          \* the rows renamed and regrouped in this round
    still_needed,  \* the rows not found in this round
    i,             \* position of `for ap in todo`
    j,             \* position of `for ap in still_needed` (line 241)
    pc,            \* position of apply_conf_csv
    status,        \* "running", or how the call ended
    issued,        \* the commands sent in this round with their output
    sent,          \* every command ever sent to the controller
    ledger0,       \* the rows in the file when the call started
    mac_in,        \* convert_mac: the argument `mac`
    mac_out,       \* convert_mac: the returned string, or NotReturned
    ct_pc,         \* position of create_table
    ct_group,      \* create_table: the argument `group`
    interactive_mac, \* create_table: the argument `interactive_mac`
    listing,       \* create_table: `stdout_s`, the controller's listing
    aps,           \* create_table: the lines of the listing
    line_no,       \* create_table: position of `for ap in aps`
    before         \* the file at `path` when create_table was called

\* the variables of the convert_mac calls and of the create_table calls
macVars == << mac_in, mac_out >>
tableVars == << ct_pc, ct_group, interactive_mac, listing, aps, line_no, before >>

\* the variables of apply_conf_csv other than the ledger file
engineVars == << swp, todo, done, still_needed, i, j, pc, status, issued, sent, ledger0 >>

vars == << file, engineVars, macVars, tableVars >>

\* the value of a file that does not exist: no file the program writes holds
\* an empty row
Absent == << <<>> >>

\* the value of a result that has not been returned: no string of characters
NotReturned == << "not returned" >>

\* no convert_mac call and no create_table call is under way
NoMacCall == mac_in = <<>> /\ mac_out = NotReturned
NoTableCall ==
    /\ ct_pc = "idle"
    /\ ct_group = <<>>
    /\ interactive_mac = FALSE
    /\ listing = <<>>
    /\ aps = <<>>
    /\ line_no = 1
    /\ before = Absent

Init ==
    /\ file \in { <<Header>> \o s : s \in RowSeqs(MaxLedger) }
    /\ swp = Absent
    /\ todo = <<>>
    /\ done = <<>>
    /\ still_needed = <<>>
    /\ i = 1
    /\ j = 1
    /\ pc = "load"
    /\ status = "running"
    /\ issued = <<>>
    /\ sent = {}
    /\ ledger0 = DictRows(file)
    /\ NoMacCall
    /\ NoTableCall

\* ------------------------------------------------------------------------
\* apply_conf_csv
\* ------------------------------------------------------------------------

\* Load with the emptiness test of line 210 off by one
Load_OffByOne ==
    /\ status = "running"
    /\ pc = "load"
    /\ todo' = DictRows(file)
    /\ done' = <<>>
    /\ still_needed' = <<>>
    /\ i' = 1
    /\ j' = 1
    /\ issued' = <<>>
    /\ IF Len(todo') <= 1
         THEN pc' = "done" /\ status' = "converged"
         ELSE pc' = "loop" /\ status' = status
    /\ UNCHANGED << file, swp, sent, ledger0, macVars, tableVars >>

\* lines 203-212: reset the lists, read the file, stop when nothing is left
Load ==
    /\ status = "running"
    /\ pc = "load"
    /\ todo' = DictRows(file)
    /\ done' = <<>>
    /\ still_needed' = <<>>
    /\ i' = 1
    /\ j' = 1
    /\ issued' = <<>>
    /\ IF Len(todo') < 1
         THEN pc' = "done" /\ status' = "converged"
         ELSE pc' = "loop" /\ status' = status
    /\ UNCHANGED << file, swp, sent, ledger0, macVars, tableVars >>

\* SkipRecord that keeps the passed-over row for the next ledger
SkipRecord_Retain ==
    /\ status = "running"
    /\ pc = "loop"
    /\ i <= Len(todo)
    /\ Len(convert_mac(todo[i]["mac"])) < MinMacLen
    /\ still_needed' = Append(still_needed, todo[i])
    /\ i' = i + 1
    /\ UNCHANGED << file, swp, todo, done, j, pc, status, issued, sent, ledger0, macVars, tableVars >>

\* lines 214-216: a row whose converted mac is shorter than 10 is passed over
SkipRecord ==
    /\ status = "running"
    /\ pc = "loop"
    /\ i <= Len(todo)
    /\ Len(convert_mac(todo[i]["mac"])) < MinMacLen
    /\ i' = i + 1
    /\ UNCHANGED << file, swp, todo, done, still_needed, j, pc, status, issued, sent, ledger0, macVars, tableVars >>

\* CheckPresence with the test of line 223 inverted
CheckPresence_Inverted ==
    /\ status = "running"
    /\ pc = "loop"
    /\ i <= Len(todo)
    /\ LET mac == convert_mac(todo[i]["mac"])
           cmd == BuildShow(mac)
       IN  /\ ~(Len(mac) < MinMacLen)
           /\ \E stdout_s \in ShowOutputs :
                /\ issued' = Append(issued, [cmd |-> cmd, out |-> stdout_s])
                /\ sent' = sent \cup {cmd}
                /\ IF IsSubstring(mac, stdout_s)
                     THEN /\ still_needed' = Append(still_needed, todo[i])
                          /\ i' = i + 1
                          /\ pc' = "loop"
                     ELSE /\ still_needed' = still_needed
                          /\ i' = i
                          /\ pc' = "rename"
    /\ UNCHANGED << file, swp, todo, done, j, status, ledger0, macVars, tableVars >>

\* CheckPresence that only sorts the row, leaving the commands for later
CheckPresence_PartitionOnly ==
    /\ status = "running"
    /\ pc = "loop"
    /\ i <= Len(todo)
    /\ LET mac == convert_mac(todo[i]["mac"])
           cmd == BuildShow(mac)
       IN  /\ ~(Len(mac) < MinMacLen)
           /\ \E stdout_s \in ShowOutputs :
                /\ issued' = Append(issued, [cmd |-> cmd, out |-> stdout_s])
                /\ sent' = sent \cup {cmd}
                /\ IF ~IsSubstring(mac, stdout_s)
                     THEN /\ still_needed' = Append(still_needed, todo[i])
                          /\ done' = done
                     ELSE /\ still_needed' = still_needed
                          /\ done' = Append(done, todo[i])
    /\ i' = i + 1
    /\ UNCHANGED << file, swp, todo, j, pc, status, ledger0, macVars, tableVars >>

\* lines 214-224: the presence check and its negative branch
CheckPresence ==
    /\ status = "running"
    /\ pc = "loop"
    /\ i <= Len(todo)
    /\ LET mac == convert_mac(todo[i]["mac"])
           cmd == BuildShow(mac)
       IN  /\ ~(Len(mac) < MinMacLen)
           /\ \E stdout_s \in ShowOutputs :
                /\ issued' = Append(issued, [cmd |-> cmd, out |-> stdout_s])
                /\ sent' = sent \cup {cmd}
                /\ IF ~IsSubstring(mac, stdout_s)
                     THEN /\ still_needed' = Append(still_needed, todo[i])
                          /\ i' = i + 1
                          /\ pc' = "loop"
                     ELSE /\ still_needed' = still_needed
                          /\ i' = i
                          /\ pc' = "rename"
    /\ UNCHANGED << file, swp, todo, done, j, status, ledger0, macVars, tableVars >>

\* IssueRename that sends the regroup command in the rename's place
IssueRename_AsRegroup ==
    /\ status = "running"
    /\ pc = "rename"
    /\ LET cmd == BuildRegroup(convert_mac(todo[i]["mac"]), todo[i]["group"])
       IN  /\ issued' = Append(issued, [cmd |-> cmd, out |-> <<>>])
           /\ sent' = sent \cup {cmd}
    /\ pc' = "regroup"
    /\ UNCHANGED << file, swp, todo, done, still_needed, i, j, status, ledger0, macVars, tableVars >>

\* lines 226-229: set the AP name
IssueRename ==
    /\ status = "running"
    /\ pc = "rename"
    /\ LET cmd == BuildRename(convert_mac(todo[i]["mac"]), todo[i]["name"])
       IN  /\ issued' = Append(issued, [cmd |-> cmd, out |-> <<>>])
           /\ sent' = sent \cup {cmd}
    /\ pc' = "regroup"
    /\ UNCHANGED << file, swp, todo, done, still_needed, i, j, status, ledger0, macVars, tableVars >>

\* lines 231-237: set the AP group, then record the row as done
IssueRegroup ==
    /\ status = "running"
    /\ pc = "regroup"
    /\ LET cmd == BuildRegroup(convert_mac(todo[i]["mac"]), todo[i]["group"])
       IN  /\ issued' = Append(issued, [cmd |-> cmd, out |-> <<>>])
           /\ sent' = sent \cup {cmd}
    /\ done' = Append(done, todo[i])
    /\ i' = i + 1
    /\ pc' = "loop"
    /\ UNCHANGED << file, swp, todo, still_needed, j, status, ledger0, macVars, tableVars >>

\* line 238: the loop over todo is over; open(path + ".swp", "w") creates
\* or truncates the temporary file
OpenSwp ==
    /\ status = "running"
    /\ pc = "loop"
    /\ i > Len(todo)
    /\ pc' = "write_header"
    /\ swp' = <<>>
    /\ UNCHANGED << file, todo, done, still_needed, i, j, status, issued, sent, ledger0, macVars, tableVars >>

\* lines 239-240
WriteHeader ==
    /\ status = "running"
    /\ pc = "write_header"
    /\ swp' = Append(swp, Header)
    /\ j' = 1
    /\ pc' = "write_rows"
    /\ UNCHANGED << file, todo, done, still_needed, i, status, issued, sent, ledger0, macVars, tableVars >>

\* lines 241-242: one row per pending access point
WriteRow ==
    /\ status = "running"
    /\ pc = "write_rows"
    /\ j <= Len(still_needed)
    /\ swp' = Append(swp, RowOf(still_needed[j]))
    /\ j' = j + 1
    /\ UNCHANGED << file, todo, done, still_needed, i, pc, status, issued, sent, ledger0, macVars, tableVars >>

\* ReplaceFile that leaves out the os.rename
ReplaceFile_NoRename ==
    /\ status = "running"
    /\ pc = "write_rows"
    /\ j > Len(still_needed)
    /\ pc' = "decide"
    /\ UNCHANGED << file, swp, todo, done, still_needed, i, j, status, issued, sent, ledger0, macVars, tableVars >>

\* ReplaceFile that renames while rows are still unwritten
ReplaceFile_Early ==
    /\ status = "running"
    /\ pc = "write_rows"
    /\ file' = swp
    /\ swp' = Absent
    /\ pc' = "decide"
    /\ UNCHANGED << todo, done, still_needed, i, j, status, issued, sent, ledger0, macVars, tableVars >>

\* line 243: os.rename(path + ".swp", path) replaces the ledger in one step
ReplaceFile ==
    /\ status = "running"
    /\ pc = "write_rows"
    /\ j > Len(still_needed)
    /\ file' = swp
    /\ swp' = Absent
    /\ pc' = "decide"
    /\ UNCHANGED << todo, done, still_needed, i, j, status, issued, sent, ledger0, macVars, tableVars >>

\* Decide that never sleeps
Decide_NeverSleep ==
    /\ status = "running"
    /\ pc = "decide"
    /\ pc' = "load"
    /\ UNCHANGED << file, swp, todo, done, still_needed, i, j, status, issued, sent, ledger0, macVars, tableVars >>

\* Decide that sleeps whatever is left
Decide_AlwaysSleep ==
    /\ status = "running"
    /\ pc = "decide"
    /\ IF Len(still_needed) >= 0 THEN pc' = "sleep" ELSE pc' = "load"
    /\ UNCHANGED << file, swp, todo, done, still_needed, i, j, status, issued, sent, ledger0, macVars, tableVars >>

\* lines 244-248 and the `while True` of line 202
Decide ==
    /\ status = "running"
    /\ pc = "decide"
    /\ IF Len(still_needed) > 0 THEN pc' = "sleep" ELSE pc' = "load"
    /\ UNCHANGED << file, swp, todo, done, still_needed, i, j, status, issued, sent, ledger0, macVars, tableVars >>

\* line 248: time.sleep(10) returns
Sleep ==
    /\ status = "running"
    /\ pc = "sleep"
    /\ pc' = "load"
    /\ UNCHANGED << file, swp, todo, done, still_needed, i, j, status, issued, sent, ledger0, macVars, tableVars >>

\* Cancel with a handler that saves the rows gathered so far
Cancel_SavePartial ==
    /\ status = "running"
    /\ status' = "cancelled"
    /\ file' = <<Header>> \o [k \in 1..Len(still_needed) |-> RowOf(still_needed[k])]
    /\ UNCHANGED << swp, todo, done, still_needed, i, j, pc, issued, sent, ledger0, macVars, tableVars >>

\* lines 201, 250-251: Control-C raises KeyboardInterrupt at whatever
\* statement of the try block is running
Cancel ==
    /\ status = "running"
    /\ status' = "cancelled"
    /\ UNCHANGED << file, swp, todo, done, still_needed, i, j, pc, issued, sent, ledger0, macVars, tableVars >>

\* TransportFailure with a handler that saves the rows gathered so far
TransportFailure_SavePartial ==
    /\ status = "running"
    /\ \/ pc \in {"rename", "regroup"}
       \/ /\ pc = "loop"
          /\ i <= Len(todo)
          /\ ~(Len(convert_mac(todo[i]["mac"])) < MinMacLen)
    /\ status' = "failed"
    /\ file' = <<Header>> \o [k \in 1..Len(still_needed) |-> RowOf(still_needed[k])]
    /\ UNCHANGED << swp, todo, done, still_needed, i, j, pc, issued, sent, ledger0, macVars, tableVars >>

\* lines 221, 228, 233: exec_command raises on a broken session; nothing in
\* apply_conf_csv catches it
TransportFailure ==
    /\ status = "running"
    /\ \/ pc \in {"rename", "regroup"}
       \/ /\ pc = "loop"
          /\ i <= Len(todo)
          /\ ~(Len(convert_mac(todo[i]["mac"])) < MinMacLen)
    /\ status' = "failed"
    /\ UNCHANGED << file, swp, todo, done, still_needed, i, j, pc, issued, sent, ledger0, macVars, tableVars >>

\* lines 264-278: the menu offers option 2 again (after a failure, so does the
\* operator who starts the program again); the call starts with fresh locals
Restart ==
    /\ status \in {"converged", "cancelled", "failed"}
    /\ status' = "running"
    /\ pc' = "load"
    /\ todo' = <<>>
    /\ done' = <<>>
    /\ still_needed' = <<>>
    /\ i' = 1
    /\ j' = 1
    /\ issued' = <<>>
    /\ ledger0' = DictRows(file)
    /\ UNCHANGED << file, swp, sent, macVars, tableVars >>

\* the steps of apply_conf_csv itself
Engine ==
    \/ Load
    \/ SkipRecord
    \/ CheckPresence
    \/ IssueRename
    \/ IssueRegroup
    \/ OpenSwp
    \/ WriteHeader
    \/ WriteRow
    \/ ReplaceFile
    \/ Decide
    \/ Sleep

Next ==
    \/ Load
    \/ SkipRecord
    \/ CheckPresence
    \/ IssueRename
    \/ IssueRegroup
    \/ OpenSwp
    \/ WriteHeader
    \/ WriteRow
    \/ ReplaceFile
    \/ Decide
    \/ Sleep
    \/ Cancel
    \/ TransportFailure
    \/ Restart

Spec == Init /\ [][Next]_vars

TypeOK ==
    /\ pc \in {"load", "loop", "rename", "regroup", "write_header", "write_rows", "decide", "sleep", "done"}
    /\ status \in {"running", "converged", "cancelled", "failed"}
    /\ i \in 1..(Len(todo) + 1)

\* ------------------------------------------------------------------------
\* Vocabulary of the properties
\* ------------------------------------------------------------------------

Range(s) == { s[k] : k \in 1..Len(s) }

ShowVerb == BuildShow(<<>>).verb
RenameVerb == BuildRename(<<>>, <<>>).verb
RegroupVerb == BuildRegroup(<<>>, <<>>).verb

IsShow(e) == e.cmd.verb = ShowVerb
IsMutation(e) == e.cmd.verb \in {RenameVerb, RegroupVerb}

\* a presence check whose output holds the mac it asked for
FoundPresent(e) == IsShow(e) /\ IsSubstring(e.cmd.mac, e.out)

\* the presence checks, and the mutation commands, of the round in order
Shows == SelectSeq(issued, IsShow)
Mutations == SelectSeq(issued, IsMutation)

RenameOf(ap) == BuildRename(convert_mac(ap.mac), ap.name)
RegroupOf(ap) == BuildRegroup(convert_mac(ap.mac), ap.group)

\* rename and regroup have both been sent for the row
BothSent(ap) == RenameOf(ap) \in sent /\ RegroupOf(ap) \in sent

PassesGuard(ap) == Len(convert_mac(ap.mac)) >= 10
ShortNonEmpty(ap) == ap.mac # <<>> /\ Len(convert_mac(ap.mac)) < 10
EmptyMac(ap) == ap.mac = <<>>

\* the ledger has just been replaced: load, checks, mutations and persist
\* of this round are over
RoundComplete == pc \in {"decide", "sleep"}

\* the loop over todo is over
LoopOver == pc \in {"write_header", "write_rows", "decide", "sleep"}

\* the rows of a loaded ledger that were not found present, given the
\* presence checks of the round in order: a row is found present when the
\* check made for its mac returned text holding that mac
RECURSIVE NotFoundRows(_, _)
NotFoundRows(rows, shows) ==
    IF rows = <<>> THEN <<>>
    ELSE LET ap == Head(rows)
             checked == shows # <<>> /\ Head(shows).cmd = BuildShow(convert_mac(ap.mac))
         IN  IF checked
               THEN IF FoundPresent(Head(shows))
                      THEN NotFoundRows(Tail(rows), Tail(shows))
                      ELSE <<ap>> \o NotFoundRows(Tail(rows), Tail(shows))
               ELSE <<ap>> \o NotFoundRows(Tail(rows), shows)

\* ------------------------------------------------------------------------
\* C1
\* ------------------------------------------------------------------------

\* C1 (as claimed): after a complete round the ledger at the path holds the
\* header and exactly the loaded rows that were not found present in the
\* round, verbatim and in order.
C1_PersistedIsNotFound ==
    RoundComplete =>
        /\ Head(file) = Header
        /\ DictRows(file) = NotFoundRows(todo, Shows)

\* ------------------------------------------------------------------------
\* C2
\* ------------------------------------------------------------------------

\* every loaded row passed the guard and was reported present in this round
AllPresentRound ==
    /\ RoundComplete
    /\ todo # <<>>
    /\ \A k \in 1..Len(todo) : PassesGuard(todo[k])
    /\ Len(Shows) = Len(todo)
    /\ \A k \in 1..Len(Shows) : FoundPresent(Shows[k])

\* C2: when all N loaded rows pass the guard and are reported present, the
\* round sends rename and regroup for each of the N rows and leaves a
\* header-only ledger; the engine then goes back to Load without sleeping
\* and without touching the ledger, and a Load of a header-only ledger ends
\* in Converged (unless the operator interrupts).
C2_AllPresentConverges ==
    [][ /\ AllPresentRound' =>
            /\ file' = <<Header>>
            /\ Len(Mutations') = 2 * Len(todo')
            /\ \A k \in 1..Len(todo') :
                  /\ Mutations'[2 * k - 1].cmd = RenameOf(todo'[k])
                  /\ Mutations'[2 * k].cmd = RegroupOf(todo'[k])
        /\ (AllPresentRound /\ status' = "running" /\ status = "running") =>
            (pc' = "load" /\ file' = file /\ sent' = sent)
        /\ (pc = "load" /\ status = "running" /\ file = <<Header>> /\ status' # "cancelled") =>
            (status' = "converged" /\ file' = file /\ sent' = sent)
      ]_vars

C2_Witness ==
    /\ AllPresentRound
    /\ Len(todo) >= 2
    /\ file = <<Header>>

\* ------------------------------------------------------------------------
\* C3
\* ------------------------------------------------------------------------

\* C3 (as claimed): a row with an empty mac gets no presence check, is never
\* marked done, and is still in the ledger, unchanged, after every round.
C3_EmptyMacKept ==
    /\ \A k \in 1..Len(issued) : issued[k].cmd.mac # <<>>
    /\ \A k \in 1..Len(done) : ~EmptyMac(done[k])
    /\ RoundComplete =>
          SelectSeq(DictRows(file), EmptyMac) = SelectSeq(todo, EmptyMac)

\* ------------------------------------------------------------------------
\* C4
\* ------------------------------------------------------------------------

ShortRows(rows) == { k \in 1..Len(rows) : ShortNonEmpty(rows[k]) }

C5_NoRedoNoLoss ==
    [][ /\ (status = "running" /\ pc \in {"rename", "regroup"} /\ issued' # issued) =>
            ~(BothSent(todo[i]) /\ todo[i] \notin Range(done))
        /\ \A ap \in Range(ledger0') :
              ~BothSent(ap)' => ap \in Range(DictRows(file'))
      ]_vars

\* ------------------------------------------------------------------------
\* C6
\* ------------------------------------------------------------------------

\* a complete ledger: the header row, then whole data rows
WholeLedger(f) ==
    /\ Len(f) >= 1
    /\ f[1] = Header
    /\ \A k \in 2..Len(f) : f[k] \in RowPool

\* C6: in every state, whether the call is running, was interrupted or
\* failed, the file at the ledger path is a complete ledger: until the
\* os.rename of the round it holds exactly the rows loaded at the start of
\* the round, and from the os.rename on exactly the still_needed rows.
C6_LedgerOldOrNew ==
    /\ WholeLedger(file)
    /\ pc \in {"loop", "rename", "regroup", "write_header", "write_rows", "done"} =>
          DictRows(file) = todo
    /\ pc \in {"decide", "sleep"} => DictRows(file) = still_needed

\* interrupted after the temporary file was written and before os.rename,
\* with a temporary file that differs from the ledger
C6_Witness ==
    /\ status = "cancelled"
    /\ pc = "write_rows"
    /\ j > Len(still_needed)
    /\ swp # file
    /\ todo # <<>>

\* ------------------------------------------------------------------------
\* C7
\* ------------------------------------------------------------------------

\* the presence checks of the round that did not find their mac
NotFoundShows == SelectSeq(issued, LAMBDA e : IsShow(e) /\ ~FoundPresent(e))

\* C7: a rename is sent only right after a presence check for the same mac
\* whose output held that mac, and a regroup only after that rename; after a
\* check whose output does not hold the mac (an empty output included) the
\* next command is the next row's check, never a mutation, and the row is
\* appended to still_needed.
C7_MutationOnlyIfFound ==
    /\ \A k \in 1..Len(issued) :
          /\ issued[k].cmd.verb = RenameVerb =>
                /\ k > 1
                /\ issued[k - 1].cmd = BuildShow(issued[k].cmd.mac)
                /\ IsSubstring(issued[k].cmd.mac, issued[k - 1].out)
          /\ issued[k].cmd.verb = RegroupVerb =>
                /\ k > 2
                /\ issued[k - 1].cmd.verb = RenameVerb
                /\ issued[k - 1].cmd.mac = issued[k].cmd.mac
                /\ issued[k - 2].cmd = BuildShow(issued[k].cmd.mac)
                /\ IsSubstring(issued[k].cmd.mac, issued[k - 2].out)
          /\ (IsShow(issued[k]) /\ ~FoundPresent(issued[k])) =>
                /\ k < Len(issued) => IsShow(issued[k + 1])
                /\ k = Len(issued) => pc \notin {"rename", "regroup"}
    /\ Len(still_needed) = Len(NotFoundShows)
    /\ \A n \in 1..Len(still_needed) :
          NotFoundShows[n].cmd = BuildShow(convert_mac(still_needed[n].mac))

C7_Witness ==
    /\ LoopOver
    /\ \E k \in 1..Len(issued) : IsShow(issued[k]) /\ issued[k].out = <<>>
    /\ \E k \in 1..Len(issued) : issued[k].cmd.verb = RegroupVerb
    /\ Len(still_needed) = 1

\* ------------------------------------------------------------------------
\* C8
\* ------------------------------------------------------------------------

\* the loaded rows that get a presence check, in order
CheckedRows == SelectSeq(todo, PassesGuard)

\* the row that the k-th command of the round is about
RowAt(k) == CheckedRows[Cardinality({ m \in 1..k : IsShow(issued[m]) })]

\* C8: each presence check that finds its row is followed by the rename of
\* that row, then by the regroup of that row, then by the next row's check;
\* no other mutation command is sent, so a row found present gets one rename
\* and one regroup, rename first, and when the loop is over every row found
\* present has had both and is in done.
C8_RenameThenRegroupOnce ==
    /\ \A k \in 1..Len(issued) :
          FoundPresent(issued[k]) =>
              /\ k + 1 <= Len(issued) => issued[k + 1].cmd = RenameOf(RowAt(k))
              /\ k + 2 <= Len(issued) => issued[k + 2].cmd = RegroupOf(RowAt(k))
              /\ k + 3 <= Len(issued) => IsShow(issued[k + 3])
              /\ LoopOver => k + 2 <= Len(issued)
    /\ Len(Mutations) = 2 * Cardinality({ k \in 1..Len(issued) : FoundPresent(issued[k]) })
                          - (IF pc = "rename" THEN 2 ELSE IF pc = "regroup" THEN 1 ELSE 0)
    /\ pc \notin {"load", "rename", "regroup"} =>
          /\ Len(Mutations) = 2 * Len(done)
          /\ \A n \in 1..Len(done) :
                /\ Mutations[2 * n - 1].cmd = RenameOf(done[n])
                /\ Mutations[2 * n].cmd = RegroupOf(done[n])

C8_Witness ==
    /\ LoopOver
    /\ Len(done) = 2
    /\ Len(Mutations) = 4
    /\ done[1] # done[2]

\* ------------------------------------------------------------------------
\* C9
\* ------------------------------------------------------------------------

C10_ConvergedMeansAllRenamed ==
    status = "converged" => \A ap \in Range(ledger0) : BothSent(ap)

\* ------------------------------------------------------------------------
\* C11
\* ------------------------------------------------------------------------

HexChars == {"0","1","2","3","4","5","6","7","8","9",
             "a","b","c","d","e","f","A","B","C","D","E","F"}

\* a 6-octet address in colon-hex form: xx:xx:xx:xx:xx:xx
SixOctets(m) ==
    /\ Len(m) = 17
    /\ \A k \in 1..17 : IF k % 3 = 0 THEN m[k] = ":" ELSE m[k] \in HexChars

\* C11 (as claimed): no presence check and no rename or regroup command is
\* ever sent for a row whose mac, once converted, is empty or is not a
\* 6-octet colon-hex address.
C11_OnlySixOctetMacs ==
    /\ \A k \in 1..Len(issued) : SixOctets(issued[k].cmd.mac)
    /\ \A c \in sent : SixOctets(c.mac)

\* ------------------------------------------------------------------------
\* C12
\* ------------------------------------------------------------------------

\* C12: when a channel call fails, the call ends at that statement: the
\* failing command is not sent again, the .swp file and the ledger are not
\* written, the ledger holds exactly the rows loaded at the start of the
\* round, and nothing happens afterwards until the operator starts a new
\* call, which begins at Load.
C12_FailureAbortsRound ==
    [][ /\ status' = "failed" =>
            /\ pc' \in {"loop", "rename", "regroup"}
            /\ Head(file') = Header
            /\ DictRows(file') = todo'
        /\ (status = "running" /\ status' = "failed") =>
            /\ file' = file
            /\ swp' = swp
            /\ sent' = sent
            /\ issued' = issued
            /\ pc' = pc
        /\ status = "failed" =>
            /\ file' = file
            /\ swp' = swp
            /\ sent' = sent
            /\ status' = "running"
            /\ pc' = "load"
      ]_vars

\* the rename call failed after the round had already missed another row
C12_Witness ==
    /\ status = "failed"
    /\ pc = "rename"
    /\ still_needed # <<>>
    /\ DictRows(file) = todo

\* ------------------------------------------------------------------------
\* C13
\* ------------------------------------------------------------------------

\* the .swp file has been opened for writing and os.rename has not run yet
InPersist == pc \in {"write_header", "write_rows"}

\* C13 (as claimed): once the write of the new ledger has started, the
\* persist step runs through os.rename before a cancel is honoured: no
\* step taken in the middle of persist ends the call as cancelled.
C13_NoCancelInPersist ==
    [][ (status = "running" /\ InPersist) => status' # "cancelled" ]_vars

\* ------------------------------------------------------------------------
\* convert_mac on its own
\* ------------------------------------------------------------------------

\* apply_conf_csv has not been called: its locals are empty and the ledger
\* is the one given
EngineIdle ==
    /\ swp = Absent
    /\ todo = <<>>
    /\ done = <<>>
    /\ still_needed = <<>>
    /\ i = 1
    /\ j = 1
    /\ pc = "load"
    /\ status = "running"
    /\ issued = <<>>
    /\ sent = {}
    /\ ledger0 = <<>>

\* the characters the tried strings are made of: a lower-case and an
\* upper-case hexadecimal letter and the colon
MacAlphabet == {"a", "B", ":"}

\* the strings over MacAlphabet of length at most n
RECURSIVE Strings(_)
Strings(n) ==
    IF n = 0 THEN { <<>> }
    ELSE LET shorter == Strings(n - 1)
         IN  shorter \cup { Append(s, c) : s \in { t \in shorter : Len(t) = n - 1 }, c \in MacAlphabet }

MacAbc == <<"a","b","c">>

\* the arguments convert_mac is tried on: every short string, and the mac
\* fields of the ledger rows
MacInputs == Strings(MaxMacLen) \cup {MacAbc, MacEmpty, MacShort, MacRaw, MacCanon, MacEight}

InitMac ==
    /\ mac_in \in MacInputs
    /\ mac_out = NotReturned
    /\ file = <<Header>>
    /\ EngineIdle
    /\ NoTableCall

\* lines 55-64: one call of convert_mac
ConvertMac ==
    /\ mac_out = NotReturned
    /\ mac_out' = convert_mac(mac_in)
    /\ UNCHANGED << mac_in, file, engineVars, tableVars >>

NextMac ==
    \/ ConvertMac

SpecMac == InitMac /\ [][NextMac]_vars

\* ------------------------------------------------------------------------
\* C14
\* ------------------------------------------------------------------------

\* the reference normalizer on a colon-free, lower-cased string: the
\* two-character groups from the left joined by colons, a trailing single
\* character dropped
RECURSIVE RefPairs(_)
RefPairs(t) ==
    IF Len(t) < 2 THEN <<>>
    ELSE IF Len(t) < 4 THEN << t[1], t[2] >>
    ELSE << t[1], t[2], ":" >> \o RefPairs(SubSeq(t, 3, Len(t)))

RefLowerChar(c) == IF c = "B" THEN "b" ELSE IF c = "A" THEN "a" ELSE IF c = "C" THEN "c"
                   ELSE IF c = "D" THEN "d" ELSE IF c = "E" THEN "e" ELSE c

RefNormalize(x) ==
    IF \E k \in 1..Len(x) : x[k] = ":" THEN x
    ELSE RefPairs([k \in 1..Len(x) |-> RefLowerChar(x[k])])

Colons(x) == Cardinality({ k \in 1..Len(x) : x[k] = ":" })

\* C14: convert_mac returns what the reference normalizer returns: an
\* argument holding a colon comes back unchanged, so converting the result
\* again changes nothing; a colon-free argument of length n comes back
\* lower-cased as n \div 2 groups of two characters joined by colons, the
\* odd last character dropped; 12 hexadecimal characters give 6 groups and
\* "abc" gives "ab".
C14_ConvertMacIsReference ==
    mac_out # NotReturned =>
        /\ mac_out = RefNormalize(mac_in)
        /\ HasChar(mac_in, ":") => (mac_out = mac_in /\ convert_mac(mac_out) = mac_out)
        /\ ~HasChar(mac_in, ":") =>
              /\ Len(mac_out) = (IF Len(mac_in) < 2 THEN 0 ELSE 3 * (Len(mac_in) \div 2) - 1)
              /\ Colons(mac_out) = (IF Len(mac_in) < 2 THEN 0 ELSE (Len(mac_in) \div 2) - 1)
              /\ \A k \in 1..Len(mac_out) : mac_out[k] \notin {"A", "B", "C", "D", "E", "F"}
        /\ mac_in = MacRaw =>
              mac_out = <<"a","a",":","b","b",":","c","c",":","d","d",":","e","e",":","0","1">>
        /\ mac_in = MacAbc => mac_out = <<"a","b">>

\* the 12 hexadecimal characters have been converted into 6 groups
C14_Witness ==
    /\ mac_in = MacRaw
    /\ mac_out # NotReturned
    /\ Colons(mac_out) = 5
    /\ Len(mac_out) = 17

\* ------------------------------------------------------------------------
\* create_table
\* ------------------------------------------------------------------------

NL == "\n"
IsSpace(c) == c \in {" ", "\t", NL}

\* str.splitlines() on a text whose line breaks are "\n"
RECURSIVE SplitLines(_)
SplitLines(t) ==
    IF t = <<>> THEN <<>>
    ELSE LET breaks == { k \in 1..Len(t) : t[k] = NL }
         IN  IF breaks = {} THEN << t >>
             ELSE LET k == CHOOSE b \in breaks : \A c \in breaks : b <= c
                  IN  << SubSeq(t, 1, k - 1) >> \o SplitLines(SubSeq(t, k + 1, Len(t)))

\* ap.split()[0]: the first run of characters that are not whitespace
FirstToken(ap) ==
    LET starts == { k \in 1..Len(ap) : ~IsSpace(ap[k]) }
        first == CHOOSE a \in starts : \A b \in starts : a <= b
        stops == { k \in first..Len(ap) : IsSpace(ap[k]) }
        last == IF stops = {} THEN Len(ap)
                ELSE (CHOOSE a \in stops : \A b \in stops : a <= b) - 1
    IN  SubSeq(ap, first, last)

\* name[-n:] and name[:-n]
LastChars(name, n) == SubSeq(name, IF Len(name) > n THEN Len(name) - n + 1 ELSE 1, Len(name))
DropLast(name, n) == SubSeq(name, 1, Len(name) - n)

\* NameOf with the suffixes compared as they are, without lower()
NameOf_CaseSensitive(ap) ==
    LET name == FirstToken(ap)
    IN  IF LastChars(name, 4) = <<"-","o","l","d">> THEN DropLast(name, 4)
        ELSE IF LastChars(name, 3) = <<"o","l","d">> THEN DropLast(name, 3)
        ELSE name

\* lines 119-125: the name of an access-point line, "-old"/"old" removed
NameOf(ap) ==
    LET name == FirstToken(ap)
    IN  IF Lower(LastChars(name, 4)) = <<"-","o","l","d">> THEN DropLast(name, 4)
        ELSE IF Lower(LastChars(name, 3)) = <<"o","l","d">> THEN DropLast(name, 3)
        ELSE name

\* line 117: the lines that are passed over
NotApLine(ap) == IF Len(ap) < 5 THEN TRUE ELSE SubSeq(ap, 1, 3) # <<"A","P","-">>

\* lines the controller may print for `show ap database long group <group>`
LineBanner  == <<"A","P"," ","D","a","t","a","b","a","s","e">>
LineExample == <<"A","P","-","L","1","-","o","l","d"," "," "," ","w","i","r","e","d">>
LineUpper   == <<"A","P","-","2","O","L","D"," ","u","p">>
LinePlain   == <<"A","P","-","3","\t","u","p">>
LineFour    == <<"A","P","-","4">>
LineOnlyOld == <<"A","P","-","o","l","d">>
LineLower   == <<"a","p","-","6"," ","u","p">>
LineIndent  == <<" ","A","P","-","7"," ","u","p">>
LineFooter  == <<"T","o","t","a","l",":","1">>
LinePool == { <<>>, LineBanner, LineExample, LineUpper, LinePlain, LineFour,
              LineOnlyOld, LineLower, LineIndent, LineFooter }

\* the text of a sequence of lines, each ended by a line break
RECURSIVE TextOf(_)
TextOf(lines) ==
    IF lines = <<>> THEN <<>>
    ELSE Head(lines) \o <<NL>> \o TextOf(Tail(lines))

RECURSIVE LineSeqs(_)
LineSeqs(n) ==
    IF n = 0 THEN { <<>> }
    ELSE LET shorter == LineSeqs(n - 1)
         IN  shorter \cup { Append(s, l) : s \in { t \in shorter : Len(t) = n - 1 }, l \in LinePool }

\* a banner, one access-point line and a footer
ExampleListing == TextOf(<< LineBanner, LineExample, LineFooter >>)

\* what the controller may answer to create_table's command; the last line
\* may lack its line break
Listings ==
    { TextOf(ls) : ls \in LineSeqs(MaxLines) }
        \cup { ExampleListing, LineUpper, TextOf(<<LinePlain>>) \o LineExample }

\* what the operator may type at the prompt of line 129
TypedMacs == { MacEmpty, MacRaw, MacCanon, MacAbc }

InitTable ==
    /\ \/ file = Absent
       \/ file \in { <<Header>> \o s : s \in RowSeqs(1) }
    /\ before = file
    /\ ct_pc = "start"
    /\ ct_group \in { GroupLobby, GroupLab }
    /\ interactive_mac \in BOOLEAN
    /\ listing = <<>>
    /\ aps = <<>>
    /\ line_no = 1
    /\ EngineIdle
    /\ NoMacCall

\* lines 106-109: a missing file is created with the header row
CreateFile ==
    /\ ct_pc = "start"
    /\ file' = IF file = Absent THEN << Header >> ELSE file
    /\ ct_pc' = "exec"
    /\ UNCHANGED << ct_group, interactive_mac, listing, aps, line_no, before, engineVars, macVars >>

\* lines 111-115: run the listing command and split its output into lines
GetListing ==
    /\ ct_pc = "exec"
    /\ \E text \in Listings :
          /\ listing' = text
          /\ aps' = SplitLines(text)
    /\ line_no' = 1
    /\ ct_pc' = "loop"
    /\ UNCHANGED << file, ct_group, interactive_mac, before, engineVars, macVars >>

\* lines 116-118: a line that is not an access-point line
SkipLine ==
    /\ ct_pc = "loop"
    /\ line_no <= Len(aps)
    /\ NotApLine(aps[line_no])
    /\ line_no' = line_no + 1
    /\ UNCHANGED << file, ct_pc, ct_group, interactive_mac, listing, aps, before, engineVars, macVars >>

\* AppendRow that opens the file with "w"
AppendRow_Overwrite ==
    /\ ct_pc = "loop"
    /\ line_no <= Len(aps)
    /\ ~NotApLine(aps[line_no])
    /\ IF interactive_mac
         THEN \E typed \in TypedMacs :
                 file' = << << ct_group, NameOf(aps[line_no]), convert_mac(typed) >> >>
         ELSE file' = << << ct_group, NameOf(aps[line_no]), <<>> >> >>
    /\ line_no' = line_no + 1
    /\ UNCHANGED << ct_pc, ct_group, interactive_mac, listing, aps, before, engineVars, macVars >>

\* lines 119-132: an access-point line appends one row to the file
AppendRow ==
    /\ ct_pc = "loop"
    /\ line_no <= Len(aps)
    /\ ~NotApLine(aps[line_no])
    /\ IF interactive_mac
         THEN \E typed \in TypedMacs :
                 file' = Append(file, << ct_group, NameOf(aps[line_no]), convert_mac(typed) >>)
         ELSE file' = Append(file, << ct_group, NameOf(aps[line_no]), <<>> >>)
    /\ line_no' = line_no + 1
    /\ UNCHANGED << ct_pc, ct_group, interactive_mac, listing, aps, before, engineVars, macVars >>

\* line 116: the loop over the lines is over and create_table returns
ReturnTable ==
    /\ ct_pc = "loop"
    /\ line_no > Len(aps)
    /\ ct_pc' = "done"
    /\ UNCHANGED << file, ct_group, interactive_mac, listing, aps, line_no, before, engineVars, macVars >>

NextTable ==
    \/ CreateFile
    \/ GetListing
    \/ SkipLine
    \/ AppendRow
    \/ ReturnTable

SpecTable == InitTable /\ [][NextTable]_vars

\* ------------------------------------------------------------------------
\* C15
\* ------------------------------------------------------------------------

\* the rows that create_table has added to the file so far
AppendedRows ==
    LET kept == IF before = Absent THEN 1 ELSE Len(before)
    IN  SubSeq(file, kept + 1, Len(file))

AppendedNames == [k \in 1..Len(AppendedRows) |-> AppendedRows[k][2]]

\* the lines of the listing handled so far
LinesDone == SubSeq(aps, 1, line_no - 1)

\* an access-point line: at least 5 characters, beginning with "AP-"
RefIsApLine(l) ==
    IF Len(l) >= 5 THEN l[1] = "A" /\ l[2] = "P" /\ l[3] = "-" ELSE FALSE

\* the characters of a line up to its first whitespace
RECURSIVE RefToken(_)
RefToken(l) ==
    IF l = <<>> THEN <<>>
    ELSE IF Head(l) \in {" ", "\t"} THEN <<>>
    ELSE << Head(l) >> \o RefToken(Tail(l))

SameLetter(c, d) ==
    c = d \/ {c, d} \in { {"o", "O"}, {"l", "L"}, {"d", "D"} }

\* the name ends with the suffix, letter case aside
RefEndsWith(name, suffix) ==
    IF Len(name) < Len(suffix) THEN FALSE
    ELSE \A k \in 1..Len(suffix) :
            SameLetter(name[Len(name) - Len(suffix) + k], suffix[k])

RefName(l) ==
    LET token == RefToken(l)
    IN  IF RefEndsWith(token, <<"-","o","l","d">>) THEN SubSeq(token, 1, Len(token) - 4)
        ELSE IF RefEndsWith(token, <<"o","l","d">>) THEN SubSeq(token, 1, Len(token) - 3)
        ELSE token

\* one name per access-point line, in line order
RECURSIVE RefNames(_)
RefNames(lines) ==
    IF lines = <<>> THEN <<>>
    ELSE IF RefIsApLine(Head(lines)) THEN << RefName(Head(lines)) >> \o RefNames(Tail(lines))
    ELSE RefNames(Tail(lines))

\* C15: the names create_table takes from the listing are, in line order,
\* one per line that has at least 5 characters and begins with "AP-", and
\* none for any other line; each name is the line's first
\* whitespace-delimited token without a trailing "-old", or else without a
\* trailing "old", in any letter case; a banner, the line
\* "AP-L1-old   wired" and a footer give exactly the name "AP-L1".
C15_ParsedNames ==
    ct_pc \in {"loop", "done"} =>
        /\ AppendedNames = RefNames(LinesDone)
        /\ (ct_pc = "done" /\ listing = ExampleListing) =>
              AppendedNames = << <<"A","P","-","L","1">> >>

C15_Witness ==
    /\ ct_pc = "done"
    /\ listing = ExampleListing
    /\ Len(aps) = 3
    /\ AppendedNames = << <<"A","P","-","L","1">> >>

\* ------------------------------------------------------------------------
\* C16
\* ------------------------------------------------------------------------

\* the file as create_table found it, or the header row of a new file
KeptRows == IF before = Absent THEN << Header >> ELSE before

ApLinesDone == SelectSeq(LinesDone, LAMBDA l : ~NotApLine(l))

C17_ChecksBeforeMutations ==
    \A k \in 1..Len(issued) : \A l \in 1..Len(issued) :
        (k < l /\ IsMutation(issued[k])) => ~IsShow(issued[l])

\* the step sends one more command
SendsCommand == Len(issued') = Len(issued) + 1

\* the rows up to the loop's position that get a presence check
CheckedUpTo(k) == SelectSeq(SubSeq(todo, 1, k), PassesGuard)

\* C17 (amended): the rows are handled one at a time in ledger order. When
\* the check of a row is sent, every row checked before it has been fully
\* handled (missed, or renamed and regrouped); when a rename or regroup is
\* sent, it is for the row checked last, which was found present, and no
\* later row has been checked yet.
C17_RowByRow ==
    [][ /\ (SendsCommand /\ IsShow(issued'[Len(issued')])) =>
            /\ issued'[Len(issued')].cmd = BuildShow(convert_mac(todo[i].mac))
            /\ Len(Shows) = Len(done) + Len(still_needed)
            /\ Len(Mutations) = 2 * Len(done)
            /\ Len(Shows') = Len(CheckedUpTo(i))
        /\ (SendsCommand /\ IsMutation(issued'[Len(issued')])) =>
            /\ issued'[Len(issued')].cmd.mac = convert_mac(todo[i].mac)
            /\ Len(Shows) = Len(CheckedUpTo(i))
            /\ FoundPresent(Shows[Len(Shows)])
            /\ Shows[Len(Shows)].cmd = BuildShow(convert_mac(todo[i].mac))
            /\ Len(Shows) = Len(done) + Len(still_needed) + 1
      ]_vars

\* the second row's check was sent after the first row's rename and regroup
C17_Witness ==
    /\ Len(issued) >= 4
    /\ FoundPresent(issued[1])
    /\ IsMutation(issued[2])
    /\ IsMutation(issued[3])
    /\ IsShow(issued[4])

\* ------------------------------------------------------------------------
\* C18
\* ------------------------------------------------------------------------

\* the call is running before and after the step
StaysRunning == status = "running" /\ status' = "running"

\* C18: after os.rename the engine sleeps, and then loads again, exactly
\* when the still_needed list it has just written is non-empty; when the
\* list is empty it goes to Load at once, and that Load, finding no rows,
\* ends in Converged: from os.rename to Converged no command is sent and
\* neither the ledger nor the .swp file is written.
C18_SleepIffPending ==
    [][ /\ (StaysRunning /\ pc = "decide") =>
            /\ pc' = (IF still_needed # <<>> THEN "sleep" ELSE "load")
            /\ UNCHANGED << file, swp, sent, issued >>
        /\ (StaysRunning /\ pc' = "sleep") =>
            /\ pc = "decide"
            /\ still_needed # <<>>
            /\ DictRows(file) = still_needed
        /\ (StaysRunning /\ pc = "sleep") =>
            /\ pc' = "load"
            /\ UNCHANGED << file, swp, sent >>
        /\ (StaysRunning /\ pc = "decide" /\ still_needed = <<>>) =>
            file' = << Header >>
        /\ (status = "running" /\ pc = "load" /\ file = << Header >> /\ status' # "cancelled") =>
            /\ status' = "converged"
            /\ UNCHANGED << file, swp, sent >>
      ]_vars

\* a round that dropped a row and found the other has just written an
\* empty list
C18_Witness ==
    /\ status = "running"
    /\ pc = "decide"
    /\ still_needed = <<>>
    /\ Len(todo) = 2
    /\ Len(done) = 1
    /\ file = << Header >>

\* ------------------------------------------------------------------------
\* The loop left to itself: no Control-C, no failing channel call
\* ------------------------------------------------------------------------

\* a presence check that finds its row
PresentStep == CheckPresence /\ pc' = "rename"

NextLive ==
    \/ Load
    \/ SkipRecord
    \/ CheckPresence
    \/ IssueRename
    \/ IssueRegroup
    \/ OpenSwp
    \/ WriteHeader
    \/ WriteRow
    \/ ReplaceFile
    \/ Decide
    \/ Sleep

\* the program keeps running (every call returns, the sleep ends), and a
\* row that is checked again and again is eventually reported present
\* (every step of the loop changes its position, so fairness is stated on the
\* position)
position == << pc, i, j >>

SpecLive ==
    /\ Init
    /\ [][NextLive]_vars
    /\ WF_position(NextLive)
    /\ SF_position(PresentStep)

\* ------------------------------------------------------------------------
\* C19
\* ------------------------------------------------------------------------

\* C19: without Control-C and failing calls, and with every pending row
\* eventually reported present at one of its checks, the call eventually
\* ends in Converged; and whenever the engine sleeps because a row was not
\* found, it starts another round afterwards.
C19_EventuallyConverged ==
    /\ <>(status = "converged")
    /\ [](pc = "sleep" => <>(pc = "loop" /\ i = 1 /\ issued = <<>> /\ todo # <<>>))

\* converged after a round in which a row was absent and a later round in
\* which it was renamed and regrouped
C19_Witness ==
    /\ status = "converged"
    /\ \E ap \in Range(ledger0) :
          /\ BothSent(ap)
          /\ ap.mac = MacRaw
    /\ \E ap \in Range(ledger0) : PassesGuard(ap) /\ ap.mac = MacCanon /\ BothSent(ap)

\* ------------------------------------------------------------------------
\* C20
\* ------------------------------------------------------------------------

\* the rename of the row was sent by an earlier call and its regroup never
\* was
HalfDone(ap) == RenameOf(ap) \in sent /\ RegroupOf(ap) \notin sent

\* C20: a call cancelled between a row's rename and its regroup leaves the
\* row in the ledger at the path, and the next call starts from that ledger;
\* a row that is found present is sent its rename and then its regroup,
\* whether or not a rename was sent for it before.
C20_HalfDoneRetried ==
    [][ /\ (status' = "cancelled" /\ pc' = "regroup") =>
            /\ todo'[i'] \in Range(DictRows(file'))
            /\ RenameOf(todo'[i']) \in sent'
        /\ (status = "cancelled" /\ status' = "running") =>
            /\ file' = file
            /\ pc' = "load"
        /\ (StaysRunning /\ pc = "load") =>
            todo' = DictRows(file)
        /\ (StaysRunning /\ pc = "rename") =>
            /\ issued' = Append(issued, [cmd |-> RenameOf(todo[i]), out |-> <<>>])
            /\ pc' = "regroup"
            /\ i' = i
            /\ todo' = todo
        /\ (StaysRunning /\ pc = "regroup") =>
            /\ Len(issued) > 0
            /\ issued[Len(issued)].cmd = RenameOf(todo[i])
            /\ issued' = Append(issued, [cmd |-> RegroupOf(todo[i]), out |-> <<>>])
      ]_vars

\* a later call has found present a row whose rename, and not whose regroup,
\* an earlier call had sent; the row is in the ledger and about to be renamed
\* again
C20_Witness ==
    /\ status = "running"
    /\ pc = "rename"
    /\ HalfDone(todo[i])
    /\ todo[i] \in Range(DictRows(file))
    /\ Len(issued) > 0
    /\ FoundPresent(issued[Len(issued)])

====
